---------------------------- MODULE Spec2Model ----------------------------
(***************************************************************************)
(* Model of libraries/SharedSpi/SharedSpi.cpp (CoreNG): the shared SPI bus *)
(* lock, the per-device bus set-up and the polled transceive loop.         *)
(*                                                                         *)
(* The source is compiled for one of three targets.  SAM4E drives the bus  *)
(* through a USART in SPI mode; SAM3XA and every other target (here SAM4S) *)
(* use the native SPI peripheral; only SAM3XA has the 16-bit transceive.   *)
(***************************************************************************)
EXTENDS Integers, Sequences, FiniteSets, TLC

VARIABLES
    variant,          \* build target: "SAM4E", "SAM3XA" or "SAM4S"
    SystemCoreClock,  \* core clock in Hz (CMSIS global read by the driver)
    \* ---- bus lock (lines 56-81) ----
    sspiLocked,       \* static bool sspiLocked
    irqEnabled,       \* CPU global interrupt enable
    pc,               \* per caller: position inside sspi_acquire / holding
    flags,            \* per caller: irqflags_t flags (line 62)
    rslt,             \* per caller: bool rslt of the last sspi_acquire
    entryFlag,        \* per caller: sspiLocked when its last call started
    nCalls,           \* number of sspi_acquire calls started
    nReleases,        \* number of sspi_release calls made
    \* ---- transceive (lines 84-107, 137-160, 332-418) ----
    xpc,              \* position inside sspi_transceive_packet(16)
    wide,             \* TRUE: sspi_transceive_packet16, FALSE: the 8-bit one
    tx_data,          \* outgoing buffer, or NULL
    rx_data,          \* incoming buffer (memory contents), or NULL
    len,              \* size_t len
    i,                \* loop index
    timeout,          \* the running wait's countdown
    status,           \* returned spi_status_t, "NONE" while running
    hw,               \* behaviour of the device: "loopback" or "free"
    TDR,              \* transmit register: last word written
    RDR,              \* receive register
    tdrLog,           \* words written to the transmit register, in order
    rdrLog,           \* values read from the receive register, in order
    memWrites,        \* number of stores made through rx_data
    rx0,              \* rx_data as it was when the call started
    polls,            \* status polls made by the call
    waitPolls,        \* status polls made by the running wait
    txEverReady,      \* the device signalled transmit-ready at some poll
    rxEverReady,      \* the device signalled receive-ready at some poll
    timedOut,         \* list of <<step, wait>> of the waits that timed out
    pollsAfterTimeout,\* polls made after a wait timed out
    \* ---- set-up (lines 245-275) ----
    reg,              \* programmed bus configuration
    lastSetup,        \* arguments of the last sspi_master_setup_device call
    regB,             \* bus configuration in a second run of the program
    lastSetupB,       \* arguments of the last set-up call of the second run
    \* ---- sspi_master_init (lines 163-230) ----
    init_comms,       \* static bool init_comms
    brought,          \* what the one-time bring-up has done to the bus
    devBits,          \* per device: device->bits (0: not set yet)
    ipc,              \* per caller: position inside sspi_master_init
    iarg,             \* per caller: arguments of its sspi_master_init call
    callNo,           \* per caller: ordinal of its sspi_master_init call
    nInits,           \* sspi_master_init calls started
    initsDone,        \* sspi_master_init calls returned
    bringUps,         \* executions of the bring-up section
    lastBitsArg,      \* per device: bits argument of its last finished init
    \* ---- chip select (lines 285-321) ----
    csLine,           \* per device: level of its chip-select pin
    pcs,              \* peripheral chip-select value of the SPI (SAM3XA)
    lastxfer,         \* spi_set_lastxfer has been issued since the last select
    spc,              \* position of the caller of select / deselect
    sdev,             \* device passed to select and deselect
    etimeout,         \* the local timeout of waitForTxEmpty
    epolls,           \* polls of transmit-empty made by the running wait
    eTimedOut,        \* what the last waitForTxEmpty returned
    deselStatus,      \* what the caller of the last deselect was given
    nSelects,         \* sspi_select_device calls made
    nDeselects,       \* sspi_deselect_device calls returned
    \* ---- clients following the whole flow ----
    stage,            \* per client: where it is between acquire and release
    flen,             \* per client: len of its running transceive call
    fi,               \* per client: loop index of its running transceive call
    ftimeout,         \* per client: the local timeout of its running wait
    nXfers            \* per client: transceive calls made since it acquired

lockVars == <<sspiLocked, irqEnabled, pc, flags, rslt, entryFlag, nCalls, nReleases>>
xferVars == <<xpc, wide, tx_data, rx_data, len, i, timeout, status, hw, TDR, RDR,
              tdrLog, rdrLog, memWrites, rx0, polls, waitPolls, txEverReady,
              rxEverReady, timedOut, pollsAfterTimeout>>
setupVars == <<reg, lastSetup, regB, lastSetupB>>
initVars == <<init_comms, brought, devBits, ipc, iarg, callNo, nInits, initsDone,
              bringUps, lastBitsArg>>
selVars == <<csLine, pcs, lastxfer, spc, sdev, etimeout, epolls, eTimedOut,
             deselStatus, nSelects, nDeselects>>
flowVars == <<stage, flen, fi, ftimeout, nXfers>>
vars == <<variant, SystemCoreClock, lockVars, xferVars, setupVars, initVars, selVars,
          flowVars>>

Variants == {"SAM4E", "SAM3XA", "SAM4S"}
NULL == "nullptr"

\* A pointer argument: null, or the address of a buffer with its contents.
NullPtr == [ptr |-> NULL, mem |-> <<>>]
Buffer(mem) == [ptr |-> "buffer", mem |-> mem]

(***************************************************************************)
(* Bounds of the model.                                                    *)
(***************************************************************************)
MaxCalls == 4
MaxLen == 2
MaxInits == 3
MaxSelects == 2
MaxXfers == 2
\* The iteration budget of a wait.  The source sets 15000 (line 48); the model
\* runs the same loops with a budget small enough to enumerate every poll.
SPI_TIMEOUT == 3


\* The call sites of the lock: two tasks and an interrupt handler.
Callers == {"taskA", "taskB", "isr"}

(***************************************************************************)
(* Values of the variables a part of the driver leaves alone.              *)
(***************************************************************************)
LockReset ==
    /\ sspiLocked = FALSE                      \* line 56
    /\ irqEnabled = TRUE
    /\ pc = [c \in Callers |-> "idle"]
    /\ flags = [c \in Callers |-> TRUE]
    /\ rslt = [c \in Callers |-> FALSE]
    /\ entryFlag = [c \in Callers |-> FALSE]
    /\ nCalls = 0
    /\ nReleases = 0

XferReset ==
    /\ xpc = "idle"
    /\ wide = FALSE
    /\ tx_data = NullPtr
    /\ rx_data = NullPtr
    /\ len = 0
    /\ i = 0
    /\ timeout = 0
    /\ status = "NONE"
    /\ hw = "free"
    /\ TDR = 0
    /\ RDR = 0
    /\ tdrLog = <<>>
    /\ rdrLog = <<>>
    /\ memWrites = 0
    /\ rx0 = NullPtr
    /\ polls = 0
    /\ waitPolls = 0
    /\ txEverReady = FALSE
    /\ rxEverReady = FALSE
    /\ timedOut = <<>>
    /\ pollsAfterTimeout = 0

\* The bus configuration after power-up: nothing programmed, bus disabled.
RegReset ==
    [cs |-> "none", cpol |-> 0, phase |-> 0, div |-> 0, bits |-> 0, enabled |-> FALSE]

SetupReset ==
    /\ reg = RegReset
    /\ lastSetup = <<>>
    /\ regB = RegReset
    /\ lastSetupB = <<>>

\* The contexts that call sspi_master_init, and the chip-select ids.
InitCallers == {"taskA", "isr"}
DeviceIds == {0, 1, 5}

\* Program constants of the chip-select code (lines 35 and 40).
MAX_NUM_WITHOUT_DECODER == 4
NONE_CHIP_SELECT_ID == 15

\* Before the first select every chip-select pin is at its idle level and
\* no peripheral chip select is programmed.
SelReset ==
    /\ csLine = [d \in DeviceIds |-> "HIGH"]
    /\ pcs = NONE_CHIP_SELECT_ID
    /\ lastxfer = FALSE
    /\ spc = "idle"
    /\ sdev = 0
    /\ etimeout = 0
    /\ epolls = 0
    /\ eTimedOut = FALSE
    /\ deselStatus = "NONE"
    /\ nSelects = 0
    /\ nDeselects = 0

\* No client has started its flow.
FlowReset ==
    /\ stage = [c \in Callers |-> "idle"]
    /\ flen = [c \in Callers |-> 0]
    /\ fi = [c \in Callers |-> 0]
    /\ ftimeout = [c \in Callers |-> 0]
    /\ nXfers = [c \in Callers |-> 0]

InitReset ==
    /\ init_comms = TRUE                       \* line 165
    /\ brought = [pins |-> FALSE, clock |-> FALSE, master |-> FALSE]
    /\ devBits = [d \in DeviceIds |-> 0]
    /\ ipc = [c \in InitCallers |-> "idle"]
    /\ iarg = [c \in InitCallers |-> [device |-> 0, bits |-> 8]]
    /\ callNo = [c \in InitCallers |-> 0]
    /\ nInits = 0
    /\ initsDone = 0
    /\ bringUps = 0
    /\ lastBitsArg = [d \in DeviceIds |-> 0]

(***************************************************************************)
(* The bus lock: sspi_acquire (lines 60-75) and sspi_release (78-81).      *)
(* Callers are two tasks and an interrupt handler on one CPU.  A caller    *)
(* takes a step only while interrupts are enabled, or while it is itself   *)
(* the code running with interrupts disabled.                              *)
(***************************************************************************)
LockFrame == UNCHANGED <<variant, SystemCoreClock, xferVars, setupVars, initVars, selVars,
                         flowVars>>

InCritical(c) == pc[c] \in {"l64", "l66", "l70", "l73"}

Runnable(c) == irqEnabled \/ InCritical(c)

\* irqflags_t flags = cpu_irq_save(): remember the interrupt state, disable.
cpu_irq_save(c) ==
    /\ flags' = [flags EXCEPT ![c] = irqEnabled]
    /\ irqEnabled' = FALSE

\* cpu_irq_restore(flags): interrupts are enabled again if they were before.
cpu_irq_restore(c) ==
    /\ irqEnabled' = flags[c]
    /\ UNCHANGED flags

\* A plausible slip: the check-and-set runs without disabling interrupts.
AcqSaveNoIrq(c) ==
    /\ pc[c] = "idle"
    /\ Runnable(c)
    /\ nCalls < MaxCalls
    /\ flags' = [flags EXCEPT ![c] = irqEnabled]
    /\ irqEnabled' = irqEnabled
    /\ pc' = [pc EXCEPT ![c] = "l64"]
    /\ entryFlag' = [entryFlag EXCEPT ![c] = sspiLocked]
    /\ nCalls' = nCalls + 1
    /\ UNCHANGED <<sspiLocked, rslt, nReleases>>
    /\ LockFrame

\* line 62: the call starts by entering the critical section.
AcqSave(c) ==
    /\ pc[c] = "idle"
    /\ Runnable(c)
    /\ nCalls < MaxCalls
    /\ cpu_irq_save(c)
    /\ pc' = [pc EXCEPT ![c] = "l64"]
    /\ entryFlag' = [entryFlag EXCEPT ![c] = sspiLocked]
    /\ nCalls' = nCalls + 1
    /\ UNCHANGED <<sspiLocked, rslt, nReleases>>
    /\ LockFrame

\* A plausible slip: the critical section ends right after the test.
AcqTestRestores(c) ==
    /\ pc[c] = "l64"
    /\ Runnable(c)
    /\ pc' = [pc EXCEPT ![c] = IF sspiLocked THEN "l66" ELSE "l70"]
    /\ irqEnabled' = flags[c]
    /\ UNCHANGED <<sspiLocked, flags, rslt, entryFlag, nCalls, nReleases>>
    /\ LockFrame

\* line 64: if (sspiLocked)
AcqTest(c) ==
    /\ pc[c] = "l64"
    /\ Runnable(c)
    /\ pc' = [pc EXCEPT ![c] = IF sspiLocked THEN "l66" ELSE "l70"]
    /\ UNCHANGED <<sspiLocked, irqEnabled, flags, rslt, entryFlag, nCalls, nReleases>>
    /\ LockFrame

\* line 66: rslt = false
AcqBusy(c) ==
    /\ pc[c] = "l66"
    /\ Runnable(c)
    /\ rslt' = [rslt EXCEPT ![c] = FALSE]
    /\ pc' = [pc EXCEPT ![c] = "l73"]
    /\ UNCHANGED <<sspiLocked, irqEnabled, flags, entryFlag, nCalls, nReleases>>
    /\ LockFrame

\* A plausible slip: the else branch reports success without taking the lock.
AcqTakeNoSet(c) ==
    /\ pc[c] = "l70"
    /\ Runnable(c)
    /\ rslt' = [rslt EXCEPT ![c] = TRUE]
    /\ pc' = [pc EXCEPT ![c] = "l73"]
    /\ UNCHANGED <<sspiLocked, irqEnabled, flags, entryFlag, nCalls, nReleases>>
    /\ LockFrame

\* lines 70-71: sspiLocked = true; rslt = true
AcqTake(c) ==
    /\ pc[c] = "l70"
    /\ Runnable(c)
    /\ sspiLocked' = TRUE
    /\ rslt' = [rslt EXCEPT ![c] = TRUE]
    /\ pc' = [pc EXCEPT ![c] = "l73"]
    /\ UNCHANGED <<irqEnabled, flags, entryFlag, nCalls, nReleases>>
    /\ LockFrame

\* lines 73-74: cpu_irq_restore(flags); return rslt.  A caller that got true
\* holds the bus; one that got false goes away.
AcqReturn(c) ==
    /\ pc[c] = "l73"
    /\ Runnable(c)
    /\ cpu_irq_restore(c)
    /\ pc' = [pc EXCEPT ![c] = IF rslt[c] THEN "holding" ELSE "idle"]
    /\ UNCHANGED <<sspiLocked, rslt, entryFlag, nCalls, nReleases>>
    /\ LockFrame

\* line 80: sspiLocked = false, called by the holder only.
Release(c) ==
    /\ pc[c] = "holding"
    /\ Runnable(c)
    /\ sspiLocked' = FALSE
    /\ pc' = [pc EXCEPT ![c] = "idle"]
    /\ nReleases' = nReleases + 1
    /\ UNCHANGED <<irqEnabled, flags, rslt, entryFlag, nCalls>>
    /\ LockFrame

LockInit ==
    /\ variant \in Variants
    /\ SystemCoreClock = 120000000
    /\ LockReset
    /\ XferReset
    /\ SetupReset
    /\ InitReset
    /\ SelReset
    /\ FlowReset

LockNext ==
    \/ \E c \in Callers : AcqSave(c)
    \/ \E c \in Callers : AcqTest(c)
    \/ \E c \in Callers : AcqBusy(c)
    \/ \E c \in Callers : AcqTake(c)
    \/ \E c \in Callers : AcqReturn(c)
    \/ \E c \in Callers : Release(c)

LockSpec == LockInit /\ [][LockNext]_vars


(***************************************************************************)
(* Claims about the bus lock.                                              *)
(***************************************************************************)
\* The callers whose sspi_acquire has answered true and who have not released.
Holders == {c \in Callers : pc[c] = "holding" \/ (pc[c] = "l73" /\ rslt[c])}

\* C1: under any interleaving of sspi_acquire calls from tasks and the
\* interrupt handler, with release called by the holder only, at most one
\* caller holds the bus at any time, and the flag is set while it is held.
C1_MutualExclusion ==
    /\ Cardinality(Holders) <= 1
    /\ (Holders # {} => sspiLocked)

\* A task holds the bus while the interrupt handler's acquire has failed.
C1_Witness ==
    /\ pc["taskA"] = "holding"
    /\ pc["isr"] = "l73"
    /\ ~rslt["isr"]
    /\ nReleases >= 1

\* C2: sspi_acquire returns true exactly when the flag was false when the
\* call started, and the flag is true when it returns (so a failed acquire
\* leaves it as it was); sspi_release leaves the flag false.
C2_AcquireRelease ==
    [][\A c \in Callers :
          /\ (pc[c] = "l73" /\ pc'[c] # "l73") =>
                /\ rslt[c] = ~entryFlag[c]
                /\ sspiLocked' = TRUE
                /\ (~rslt[c] => sspiLocked' = entryFlag[c])
          /\ (pc[c] = "holding" /\ pc'[c] = "idle") => sspiLocked' = FALSE
      ]_vars

\* After a release one caller acquired again (true) and the next one failed.
C2_Witness ==
    /\ nReleases >= 1
    /\ \E c, d \in Callers :
          /\ pc[c] = "holding"
          /\ ~entryFlag[c]
          /\ pc[d] = "l73"
          /\ entryFlag[d]
          /\ ~rslt[d]


(***************************************************************************)
(* The transceive loop: sspi_transceive_packet (lines 332-373) and, on     *)
(* SAM3XA, sspi_transceive_packet16 (385-418), with the bounded waits      *)
(* waitForTxReady (84-107) and waitForRxReady (137-160).  One call is      *)
(* modelled from its entry to its return, one status poll per step.        *)
(***************************************************************************)
XferFrame == UNCHANGED <<variant, SystemCoreClock, lockVars, setupVars, initVars, selVars,
                         flowVars>>

\* The "last transfer" bit of the transmit word (bit 24 of SPI_TDR).
SPI_TDR_LASTXFER == 2 ^ 24

\* x | bit, for a single-bit mask.
BitOr(x, bit) == IF (x \div bit) % 2 = 1 THEN x ELSE x + bit

\* The data field of a transmit or receive word (bits 0..15).
DataField(w) == w % (2 ^ 16)

\* (uint8_t)v and (uint16_t)v, lines 360-364 and 410.
CastIn(v, w) == IF w THEN v % (2 ^ 16) ELSE v % (2 ^ 8)

\* Values a caller puts in its outgoing buffer, and values the device leaves
\* in the receive register (with bits above the data field set).
TxVals(w) == IF w THEN {161, 48879} ELSE {161, 60}
RxVals == {451, 983130}
RxFill == 238

TxBufs(n, w) == {Buffer(b) : b \in [1..n -> TxVals(w)]}

\* What the status flag may read at a poll.
ReadyFlags == IF hw = "loopback" THEN {TRUE} ELSE {TRUE, FALSE}

\* A plausible slip: the budget is tested before it is decremented (as the
\* transmit-empty wait does), which allows one poll more.
waitPostDecrement(t, ready) ==
    IF ready THEN [t |-> t, out |-> "ready"]
    ELSE [t |-> t - 1, out |-> IF t = 0 THEN "timeout" ELSE "again"]

\* One pass of  while (!ready) { if (--timeout == 0) return true; }
\* timeout is at least 1 before every decrement, so it never wraps.
waitForTxReady(t, ready) ==
    IF ready THEN [t |-> t, out |-> "ready"]
    ELSE [t |-> t - 1, out |-> IF t - 1 = 0 THEN "timeout" ELSE "again"]

waitForRxReady(t, ready) ==
    IF ready THEN [t |-> t, out |-> "ready"]
    ELSE [t |-> t - 1, out |-> IF t - 1 = 0 THEN "timeout" ELSE "again"]

\* Plausible slips in the outgoing word: the first element sent every time,
\* and a fill value of zero.
DOutFirst(tx, idx, n) ==
    LET d == IF tx.ptr = NULL THEN 255 ELSE tx.mem[1]
    IN  IF idx + 1 = n THEN BitOr(d, SPI_TDR_LASTXFER) ELSE d

DOutZeroFill(tx, idx, n) ==
    LET d == IF tx.ptr = NULL THEN 0 ELSE tx.mem[idx + 1]
    IN  IF idx + 1 = n THEN BitOr(d, SPI_TDR_LASTXFER) ELSE d

\* A plausible slip: the marker is tested against len instead of len - 1.
DOutMarkLate(tx, idx, n) ==
    LET d == IF tx.ptr = NULL THEN 255 ELSE tx.mem[idx + 1]
    IN  IF idx = n THEN BitOr(d, SPI_TDR_LASTXFER) ELSE d

\* lines 342-346 / 396-400: the word written at step idx of n.
DOut(tx, idx, n) ==
    LET d == IF tx.ptr = NULL THEN 255 ELSE tx.mem[idx + 1]
    IN  IF idx + 1 = n THEN BitOr(d, SPI_TDR_LASTXFER) ELSE d

\* Entry of the call, with the first test of the for loop (line 334 / 387).
Call ==
    /\ xpc = "idle"
    /\ \E w \in (IF variant = "SAM3XA" THEN BOOLEAN ELSE {FALSE}),
          n \in 0..MaxLen, h \in {"loopback", "free"} :
          /\ wide' = w
          /\ len' = n
          /\ hw' = h
          /\ tx_data' \in {NullPtr} \cup TxBufs(n, w)
          /\ rx_data' \in {NullPtr, Buffer([j \in 1..n |-> RxFill])}
    /\ rx0' = rx_data'
    /\ i' = 0
    /\ IF len' = 0
          THEN xpc' = "done" /\ status' = "SPI_OK" /\ timeout' = 0
          ELSE xpc' = "txwait" /\ status' = "NONE" /\ timeout' = SPI_TIMEOUT
    /\ waitPolls' = 0
    /\ UNCHANGED <<TDR, RDR, tdrLog, rdrLog, memWrites, polls, txEverReady,
                   rxEverReady, timedOut, pollsAfterTimeout>>
    /\ XferFrame

\* A plausible slip: the transmit wait's timeout is noted but the step goes on.
TxPollGoesOn ==
    /\ xpc = "txwait"
    /\ \E ready \in ReadyFlags :
          LET r == waitForTxReady(timeout, ready) IN
          /\ timeout' = r.t
          /\ txEverReady' = (txEverReady \/ ready)
          /\ xpc' = IF r.out = "again" THEN "txwait" ELSE "write"
          /\ timedOut' = IF r.out = "timeout"
                            THEN Append(timedOut, <<i, "tx">>) ELSE timedOut
    /\ polls' = polls + 1
    /\ waitPolls' = waitPolls + 1
    /\ pollsAfterTimeout' = pollsAfterTimeout + (IF timedOut # <<>> THEN 1 ELSE 0)
    /\ UNCHANGED <<wide, tx_data, rx_data, len, i, status, hw, TDR, RDR, tdrLog,
                   rdrLog, memWrites, rx0, rxEverReady>>
    /\ XferFrame

\* lines 336-339 / 390-393: one poll of the transmit-ready flag.
TxPoll ==
    /\ xpc = "txwait"
    /\ \E ready \in ReadyFlags :
          LET r == waitForTxReady(timeout, ready) IN
          /\ timeout' = r.t
          /\ txEverReady' = (txEverReady \/ ready)
          /\ xpc' = CASE r.out = "ready" -> "write"
                      [] r.out = "timeout" -> "done"
                      [] OTHER -> "txwait"
          /\ status' = IF r.out = "timeout" THEN "SPI_ERROR_TIMEOUT" ELSE status
          /\ timedOut' = IF r.out = "timeout"
                            THEN Append(timedOut, <<i, "tx">>) ELSE timedOut
    /\ polls' = polls + 1
    /\ waitPolls' = waitPolls + 1
    /\ pollsAfterTimeout' = pollsAfterTimeout + (IF timedOut # <<>> THEN 1 ELSE 0)
    /\ UNCHANGED <<wide, tx_data, rx_data, len, i, hw, TDR, RDR, tdrLog,
                   rdrLog, memWrites, rx0, rxEverReady>>
    /\ XferFrame

\* lines 342-352 / 396-401: write the word; the receive wait starts.  A
\* loopback device answers with the data written.
WriteTDR ==
    /\ xpc = "write"
    /\ TDR' = DOut(tx_data, i, len)
    /\ tdrLog' = Append(tdrLog, [idx |-> i, word |-> TDR'])
    /\ RDR' = IF hw = "loopback" THEN DataField(TDR') ELSE RDR
    /\ xpc' = "rxwait"
    /\ timeout' = SPI_TIMEOUT
    /\ waitPolls' = 0
    /\ UNCHANGED <<wide, tx_data, rx_data, len, i, status, hw, rdrLog, memWrites,
                   rx0, polls, txEverReady, rxEverReady, timedOut,
                   pollsAfterTimeout>>
    /\ XferFrame

\* A plausible slip: the receive wait's result is ignored.
RxPollIgnored ==
    /\ xpc = "rxwait"
    /\ \E ready \in ReadyFlags :
          LET r == waitForRxReady(timeout, ready) IN
          /\ timeout' = r.t
          /\ rxEverReady' = (rxEverReady \/ ready)
          /\ xpc' = IF r.out = "again" THEN "rxwait" ELSE "read"
          /\ timedOut' = IF r.out = "timeout"
                            THEN Append(timedOut, <<i, "rx">>) ELSE timedOut
          /\ IF ready /\ hw = "free" THEN RDR' \in RxVals ELSE RDR' = RDR
    /\ polls' = polls + 1
    /\ waitPolls' = waitPolls + 1
    /\ pollsAfterTimeout' = pollsAfterTimeout + (IF timedOut # <<>> THEN 1 ELSE 0)
    /\ UNCHANGED <<wide, tx_data, rx_data, len, i, status, hw, TDR, tdrLog,
                   rdrLog, memWrites, rx0, txEverReady>>
    /\ XferFrame

\* lines 354-357 / 404-407: one poll of the receive-ready flag.  When the
\* flag is set the receive register holds a word from the device.
RxPoll ==
    /\ xpc = "rxwait"
    /\ \E ready \in ReadyFlags :
          LET r == waitForRxReady(timeout, ready) IN
          /\ timeout' = r.t
          /\ rxEverReady' = (rxEverReady \/ ready)
          /\ xpc' = CASE r.out = "ready" -> "read"
                      [] r.out = "timeout" -> "done"
                      [] OTHER -> "rxwait"
          /\ status' = IF r.out = "timeout" THEN "SPI_ERROR_TIMEOUT" ELSE status
          /\ timedOut' = IF r.out = "timeout"
                            THEN Append(timedOut, <<i, "rx">>) ELSE timedOut
          /\ IF ready /\ hw = "free" THEN RDR' \in RxVals ELSE RDR' = RDR
    /\ polls' = polls + 1
    /\ waitPolls' = waitPolls + 1
    /\ pollsAfterTimeout' = pollsAfterTimeout + (IF timedOut # <<>> THEN 1 ELSE 0)
    /\ UNCHANGED <<wide, tx_data, rx_data, len, i, hw, TDR, tdrLog,
                   rdrLog, memWrites, rx0, txEverReady>>
    /\ XferFrame

\* lines 360-370 / 410-415, then ++i and the loop test (334 / 387), and the
\* return of line 372 / 417 when the loop ends.
ReadRDR ==
    /\ xpc = "read"
    /\ rdrLog' = Append(rdrLog, [idx |-> i, val |-> RDR])
    /\ IF rx_data.ptr # NULL
          THEN /\ rx_data' = [rx_data EXCEPT !.mem[i + 1] = CastIn(RDR, wide)]
               /\ memWrites' = memWrites + 1
          ELSE UNCHANGED <<rx_data, memWrites>>
    /\ i' = i + 1
    /\ IF i + 1 < len
          THEN xpc' = "txwait" /\ status' = status /\ timeout' = SPI_TIMEOUT
          ELSE xpc' = "done" /\ timeout' = timeout
               /\ status' = IF status = "NONE" THEN "SPI_OK" ELSE status
    /\ waitPolls' = 0
    /\ UNCHANGED <<wide, tx_data, len, hw, TDR, RDR, tdrLog, rx0, polls,
                   txEverReady, rxEverReady, timedOut, pollsAfterTimeout>>
    /\ XferFrame

XferInit ==
    /\ variant \in Variants
    /\ SystemCoreClock = 120000000
    /\ LockReset
    /\ XferReset
    /\ SetupReset
    /\ InitReset
    /\ SelReset
    /\ FlowReset

XferNext ==
    \/ Call
    \/ TxPoll
    \/ WriteTDR
    \/ RxPoll
    \/ ReadRDR

XferSpec == XferInit /\ [][XferNext]_vars


(***************************************************************************)
(* Claims about the transceive loop.                                       *)
(***************************************************************************)
\* C3: a call never polls without bound: each wait makes at most
\* SPI_TIMEOUT polls and the call at most 2 * len * SPI_TIMEOUT, and a call
\* that is not finished can always take its next step; with len >= 1 and a
\* device that never signals transmit-ready, or never signals
\* receive-ready, the call returns SPI_ERROR_TIMEOUT.
C3_BoundedPolls ==
    /\ waitPolls <= SPI_TIMEOUT
    /\ polls <= 2 * len * SPI_TIMEOUT
    /\ (xpc # "done" => ENABLED XferNext)
    /\ (xpc = "done" /\ len >= 1 /\ ~txEverReady) =>
          (status = "SPI_ERROR_TIMEOUT" /\ polls <= SPI_TIMEOUT)
    /\ (xpc = "done" /\ len >= 1 /\ ~rxEverReady) => status = "SPI_ERROR_TIMEOUT"

\* The device never signalled transmit-ready and the call gave up after its
\* whole budget.
C3_Witness ==
    /\ xpc = "done"
    /\ len = MaxLen
    /\ ~txEverReady
    /\ status = "SPI_ERROR_TIMEOUT"
    /\ polls = SPI_TIMEOUT

\* C4: the call returns SPI_OK exactly when none of its waits timed out; a
\* call that returned SPI_OK wrote len words and read len words, in index
\* order 0..len-1 (for len = 0 without a poll, a write or a read); at most
\* one wait times out and nothing is polled after it.
C4_OkIffNoTimeout ==
    /\ \A k \in 1..Len(tdrLog) : tdrLog[k].idx = k - 1
    /\ \A k \in 1..Len(rdrLog) : rdrLog[k].idx = k - 1
    /\ Len(timedOut) <= 1
    /\ pollsAfterTimeout = 0
    /\ xpc = "done" =>
          /\ (status = "SPI_OK") <=> (timedOut = <<>>)
          /\ status \in {"SPI_OK", "SPI_ERROR_TIMEOUT"}
          /\ status = "SPI_OK" => (Len(tdrLog) = len /\ Len(rdrLog) = len)
          /\ len = 0 => (status = "SPI_OK" /\ polls = 0)

\* A full-length exchange succeeded although some polls found the flags not
\* ready.
C4_Witness ==
    /\ xpc = "done"
    /\ status = "SPI_OK"
    /\ len = MaxLen
    /\ hw = "free"
    /\ polls > 2 * len

\* C5: when a wait times out at step k the call has returned: no word with
\* an index above k was written (index k itself only if the receive wait
\* timed out), the receive register was read k times and not again,
\* incoming[j] is as the caller left it for j >= k and holds the word
\* received at step j for j < k.
C5_AbortOnTimeout ==
    timedOut # <<>> =>
        LET k == timedOut[1][1]
            w == timedOut[1][2]
        IN  /\ xpc = "done"
            /\ status = "SPI_ERROR_TIMEOUT"
            /\ Len(tdrLog) = (IF w = "tx" THEN k ELSE k + 1)
            /\ \A e \in 1..Len(tdrLog) : tdrLog[e].idx <= k
            /\ Len(rdrLog) = k
            /\ rx_data.ptr # NULL =>
                  \A j \in 1..len :
                      rx_data.mem[j] = (IF j > k THEN rx0.mem[j]
                                        ELSE CastIn(rdrLog[j].val, wide))

\* The receive wait of the second step timed out with an incoming buffer.
C5_Witness ==
    /\ xpc = "done"
    /\ timedOut = << <<1, "rx">> >>
    /\ rx_data.ptr # NULL
    /\ rx_data.mem[1] # RxFill
    /\ len >= 2

\* C6: against a loopback device (always ready, answering with the data
\* last written) sspi_transceive_packet returns SPI_OK with rx[j] = tx[j]
\* for every j < len.
C6_Loopback ==
    (xpc = "done" /\ hw = "loopback" /\ ~wide /\ tx_data.ptr # NULL
        /\ rx_data.ptr # NULL) =>
        /\ status = "SPI_OK"
        /\ \A j \in 1..len : rx_data.mem[j] = tx_data.mem[j]

\* A loopback exchange of full length with distinct bytes, the last word
\* written carrying the marker.
C6_Witness ==
    /\ xpc = "done"
    /\ hw = "loopback"
    /\ ~wide
    /\ len = MaxLen
    /\ tx_data.ptr # NULL
    /\ rx_data.ptr # NULL
    /\ tx_data.mem[1] # tx_data.mem[len]
    /\ rx_data.mem = tx_data.mem
    /\ tdrLog[len].word >= SPI_TDR_LASTXFER

\* C7: with a null tx_data every word written has the data value 0xFF, in
\* both transceive functions, one word per step; with a null rx_data no
\* memory is written.
C7_FillAndDiscard ==
    /\ tx_data.ptr = NULL =>
          /\ \A k \in 1..Len(tdrLog) : DataField(tdrLog[k].word) = 255
          /\ (xpc = "done" /\ status = "SPI_OK") => Len(tdrLog) = len
    /\ rx_data.ptr = NULL => (memWrites = 0 /\ rx_data = NullPtr)

\* A 16-bit exchange of full length with neither buffer.
C7_Witness ==
    /\ xpc = "done"
    /\ status = "SPI_OK"
    /\ wide
    /\ len = MaxLen
    /\ tx_data.ptr = NULL
    /\ rx_data.ptr = NULL
    /\ Len(rdrLog) = len


(***************************************************************************)
(* sspi_master_setup_device (lines 245-275).  reg is the configuration the *)
(* call leaves in the peripheral: on SAM4E the USART's mode and baud-rate  *)
(* generator registers, on the native peripheral the chip-select register  *)
(* of the device (the reset of line 266 clears all the others).  phase is  *)
(* the clock-phase bit as written: US_MR_CPHA, or SPI_CSR_NCPHA.           *)
(***************************************************************************)
SetupFrame == UNCHANGED <<variant, SystemCoreClock, lockVars, xferVars, initVars, selVars,
                          flowVars>>

\* The devices a caller passes: chip-select id and the word width that
\* sspi_master_init stored (8 only on the USART).
Devices ==
    {[id |-> d, bits |-> b] :
        d \in {0, 1}, b \in (IF variant = "SAM4E" THEN {8} ELSE {8, 16})}

SpiModes == 0..3
BaudRates == {1000, 1000000, 4000000, 7000000, 240000000}
CoreClocks == {84000000, 120000000}

\* Conversion of a value to int16_t (line 269).
ToInt16(v) ==
    LET m == v % (2 ^ 16) IN IF m >= 2 ^ 15 THEN m - 2 ^ 16 ELSE m

\* The divider for a baud rate: core clock / baud rate, integer division.
spi_calc_baudrate_div(baud, mck) == mck \div baud

\* Largest value the hardware divider field holds: 16 bits in the USART's
\* baud-rate generator, 8 bits in the SPI chip-select register.
MaxDivider(v) == IF v = "SAM4E" THEN 2 ^ 16 - 1 ELSE 2 ^ 8 - 1

\* lines 248-264: the USART in SPI master mode.
SetupUsart(spiMode, baud_rate) ==
    [cs |-> "USART",
     cpol |-> IF (spiMode \div 2) % 2 = 1 THEN 1 ELSE 0,
     phase |-> IF spiMode % 2 = 1 THEN 1 ELSE 0,
     bits |-> 8,
     div |-> SystemCoreClock \div baud_rate,
     enabled |-> TRUE]

\* lines 266-273: the native SPI peripheral.
SetupSpi(device, spiMode, baud_rate) ==
    LET baud_div == ToInt16(spi_calc_baudrate_div(baud_rate, SystemCoreClock))
        ul_polarity == spiMode \div 2
        ul_phase == IF spiMode % 2 = 1 THEN 0 ELSE 1
    IN  [cs |-> device.id,
         cpol |-> IF ul_polarity # 0 THEN 1 ELSE 0,
         phase |-> IF ul_phase # 0 THEN 1 ELSE 0,
         bits |-> device.bits,
         div |-> baud_div,
         enabled |-> TRUE]

\* A plausible slip: a device that was set up last is taken to be still
\* configured, and the registers are left as they are.
SetupCached ==
    /\ \E device \in Devices, spiMode \in SpiModes, baud_rate \in BaudRates :
          /\ reg' = IF lastSetup # <<>> /\ lastSetup[1].device = device
                       THEN reg
                       ELSE IF variant = "SAM4E"
                               THEN SetupUsart(spiMode, baud_rate)
                               ELSE SetupSpi(device, spiMode, baud_rate)
          /\ lastSetup' = << [device |-> device, spiMode |-> spiMode,
                              baud_rate |-> baud_rate] >>
    /\ UNCHANGED <<regB, lastSetupB>>
    /\ SetupFrame

sspi_master_setup_device ==
    /\ \E device \in Devices, spiMode \in SpiModes, baud_rate \in BaudRates :
          /\ reg' = IF variant = "SAM4E"
                       THEN SetupUsart(spiMode, baud_rate)
                       ELSE SetupSpi(device, spiMode, baud_rate)
          /\ lastSetup' = << [device |-> device, spiMode |-> spiMode,
                              baud_rate |-> baud_rate] >>
    /\ UNCHANGED <<regB, lastSetupB>>
    /\ SetupFrame

\* The same call made in a second run of the program, which has its own
\* history of set-up calls.
SetupInRunB ==
    /\ \E device \in Devices, spiMode \in SpiModes, baud_rate \in BaudRates :
          /\ regB' = IF variant = "SAM4E"
                        THEN SetupUsart(spiMode, baud_rate)
                        ELSE SetupSpi(device, spiMode, baud_rate)
          /\ lastSetupB' = << [device |-> device, spiMode |-> spiMode,
                               baud_rate |-> baud_rate] >>
    /\ UNCHANGED <<reg, lastSetup>>
    /\ SetupFrame

SetupInit ==
    /\ variant \in Variants
    /\ SystemCoreClock \in CoreClocks
    /\ LockReset
    /\ XferReset
    /\ SetupReset
    /\ InitReset
    /\ SelReset
    /\ FlowReset

SetupNext == sspi_master_setup_device

SetupSpec == SetupInit /\ [][SetupNext]_vars

\* Two runs side by side, each making its own sequence of set-up calls.
SetupPairNext ==
    \/ sspi_master_setup_device
    \/ SetupInRunB

SetupPairSpec == SetupInit /\ [][SetupPairNext]_vars

(***************************************************************************)
(* Claims about the set-up.                                                *)
(***************************************************************************)
\* C8: for every spiMode in 0..3, on every hardware variant, the call
\* programs clockPolarity = (spiMode >> 1) & 1 and a phase bit that is the
\* inverse of the low mode bit.
C8_PhaseInverted ==
    lastSetup # <<>> =>
        /\ reg.cpol = (lastSetup[1].spiMode \div 2) % 2
        /\ reg.phase = 1 - (lastSetup[1].spiMode % 2)

\* C9: for every core clock and baud rate the programmed divisor is the
\* truncated quotient core clock / baud rate; 120 for 120 MHz and 1 MHz.
C9_TruncatingDivision ==
    lastSetup # <<>> =>
        /\ reg.div = SystemCoreClock \div lastSetup[1].baud_rate
        /\ (SystemCoreClock = 120000000 /\ lastSetup[1].baud_rate = 1000000)
              => reg.div = 120

\* C10: after every call, whatever the baud rate, the programmed divisor is
\* at least 1 and within the range of the hardware divider.
C10_DivisorInRange ==
    lastSetup # <<>> =>
        /\ reg.div >= 1
        /\ reg.div <= MaxDivider(variant)


(***************************************************************************)
(* sspi_master_init (lines 163-230): the one-time bring-up guarded by the  *)
(* static init_comms, then the word width of the device.  The function     *)
(* disables no interrupt, so a call from the interrupt handler can start   *)
(* at any point of a task's call and then runs to its end.                 *)
(***************************************************************************)
InitFrame == UNCHANGED <<variant, SystemCoreClock, lockVars, xferVars, lastSetup, regB,
                         lastSetupB, selVars, flowVars>>

\* The bits arguments callers pass: the two supported widths and another.
BitsArgs == {8, 12, 16}

\* What the bring-up leaves in the peripheral: lines 178-185 put the USART
\* in 8-bit SPI master mode at 1 MHz with transmitter and receiver
\* disabled; lines 193-201 reset the SPI peripheral.
BringUpReg ==
    IF variant = "SAM4E"
       THEN [cs |-> "USART", cpol |-> 0, phase |-> 0,
             div |-> SystemCoreClock \div 1000000, bits |-> 8, enabled |-> FALSE]
       ELSE RegReset

\* A plausible slip: the 16-bit case is honoured on the USART as well, and
\* an unsupported width is passed on.
BitsForAny(v, bits) == IF bits = 16 THEN 16 ELSE bits

\* lines 214-229: the value stored in device->bits.
BitsFor(v, bits) ==
    IF v = "SAM4E" THEN 8
    ELSE IF bits = 16 THEN 16 ELSE 8

\* Entry of a call.
InitEnter(c) ==
    /\ ipc[c] = "idle"
    /\ nInits < MaxInits
    /\ \E d \in DeviceIds, b \in BitsArgs :
          iarg' = [iarg EXCEPT ![c] = [device |-> d, bits |-> b]]
    /\ ipc' = [ipc EXCEPT ![c] = "l167"]
    /\ nInits' = nInits + 1
    /\ callNo' = [callNo EXCEPT ![c] = nInits + 1]
    /\ UNCHANGED <<init_comms, brought, devBits, initsDone, bringUps, lastBitsArg, reg>>
    /\ InitFrame

\* line 167: if (init_comms)
InitTest(c) ==
    /\ ipc[c] = "l167"
    /\ ipc' = [ipc EXCEPT ![c] = IF init_comms THEN "l169" ELSE "l214"]
    /\ UNCHANGED <<init_comms, brought, devBits, iarg, callNo, nInits, initsDone,
                   bringUps, lastBitsArg, reg>>
    /\ InitFrame

\* lines 169-210: pins, peripheral clock, reset and master mode.
InitBringUp(c) ==
    /\ ipc[c] = "l169"
    /\ brought' = [pins |-> TRUE, clock |-> TRUE, master |-> TRUE]
    /\ reg' = BringUpReg
    /\ bringUps' = bringUps + 1
    /\ ipc' = [ipc EXCEPT ![c] = "l211"]
    /\ UNCHANGED <<init_comms, devBits, iarg, callNo, nInits, initsDone, lastBitsArg>>
    /\ InitFrame

\* A plausible slip: the flag is left set.
InitClearForgotten(c) ==
    /\ ipc[c] = "l211"
    /\ ipc' = [ipc EXCEPT ![c] = "l214"]
    /\ UNCHANGED <<init_comms, brought, devBits, iarg, callNo, nInits, initsDone,
                   bringUps, lastBitsArg, reg>>
    /\ InitFrame

\* line 211: init_comms = false
InitClear(c) ==
    /\ ipc[c] = "l211"
    /\ init_comms' = FALSE
    /\ ipc' = [ipc EXCEPT ![c] = "l214"]
    /\ UNCHANGED <<brought, devBits, iarg, callNo, nInits, initsDone, bringUps,
                   lastBitsArg, reg>>
    /\ InitFrame

\* lines 214-230: device->bits, and the return.
InitSetBits(c) ==
    /\ ipc[c] = "l214"
    /\ devBits' = [devBits EXCEPT ![iarg[c].device] = BitsFor(variant, iarg[c].bits)]
    /\ lastBitsArg' = [lastBitsArg EXCEPT ![iarg[c].device] = iarg[c].bits]
    /\ initsDone' = initsDone + 1
    /\ ipc' = [ipc EXCEPT ![c] = "idle"]
    /\ UNCHANGED <<init_comms, brought, iarg, callNo, nInits, bringUps, reg>>
    /\ InitFrame

\* Calls one after the other: a call starts when no other is in progress.
Alone(c) == \A d \in InitCallers \ {c} : ipc[d] = "idle"

\* Calls from a task and from the interrupt handler: the handler runs to its
\* end before the task goes on.
Preempting(c) == c = "isr" \/ ipc["isr"] = "idle"

InitSeqInit ==
    /\ variant \in Variants
    /\ SystemCoreClock = 120000000
    /\ LockReset
    /\ XferReset
    /\ SetupReset
    /\ InitReset
    /\ SelReset
    /\ FlowReset

InitSeqNext ==
    \/ \E c \in InitCallers : Alone(c) /\ InitEnter(c)
    \/ \E c \in InitCallers : Alone(c) /\ InitTest(c)
    \/ \E c \in InitCallers : Alone(c) /\ InitBringUp(c)
    \/ \E c \in InitCallers : Alone(c) /\ InitClear(c)
    \/ \E c \in InitCallers : Alone(c) /\ InitSetBits(c)

InitSeqSpec == InitSeqInit /\ [][InitSeqNext]_vars

InitIrqNext ==
    \/ \E c \in InitCallers : Preempting(c) /\ InitEnter(c)
    \/ \E c \in InitCallers : Preempting(c) /\ InitTest(c)
    \/ \E c \in InitCallers : Preempting(c) /\ InitBringUp(c)
    \/ \E c \in InitCallers : Preempting(c) /\ InitClear(c)
    \/ \E c \in InitCallers : Preempting(c) /\ InitSetBits(c)

InitIrqSpec == InitSeqInit /\ [][InitIrqNext]_vars

(***************************************************************************)
(* Claims about sspi_master_init.                                          *)
(***************************************************************************)
\* C11: over any sequence of sspi_master_init calls the bring-up section
\* runs exactly once, in the first call; every later call leaves the bus
\* registers alone and changes only the word width of its own device.
C11_BringUpOnce ==
    [][/\ bringUps' <= 1
       /\ (bringUps' # bringUps) => (\E c \in InitCallers : callNo[c] = 1 /\ ipc[c] = "l169")
       /\ (initsDone' >= 1) => (bringUps' = 1)
       /\ \A c \in InitCallers :
             (ipc'[c] # ipc[c] /\ callNo'[c] >= 2) =>
                /\ reg' = reg
                /\ brought' = brought
                /\ bringUps' = bringUps
                /\ \A d \in DeviceIds \ {iarg'[c].device} : devBits'[d] = devBits[d]
      ]_vars

\* Every allowed call was made, for both devices, after one bring-up.
C11_Witness ==
    /\ initsDone = MaxInits
    /\ bringUps = 1
    /\ brought.master
    /\ devBits[0] # 0
    /\ devBits[1] # 0

\* C14: sspi_master_init always returns, and leaves the device's width at
\* 16 bits only for bits = 16 on a native-SPI build, at the 8-bit default
\* for every other argument and for every argument on the USART build.
C14_WidthDefault ==
    /\ \A d \in DeviceIds :
          lastBitsArg[d] # 0 =>
             devBits[d] = (IF variant # "SAM4E" /\ lastBitsArg[d] = 16 THEN 16 ELSE 8)
    /\ (\E c \in InitCallers : ipc[c] # "idle") => ENABLED InitSeqNext

\* On a native build one device asked for 16 bits and got them, the other
\* asked for 12 and got 8.
C14_Witness ==
    /\ variant = "SAM3XA"
    /\ lastBitsArg[0] = 16
    /\ devBits[0] = 16
    /\ lastBitsArg[1] = 12
    /\ devBits[1] = 8

\* C17: also when a call from the interrupt handler starts while a task's
\* first call is inside the bring-up section, the bring-up is executed once.
C17_BringUpOnceInterleaved == bringUps <= 1

(***************************************************************************)
(* Chip select: sspi_select_device (lines 285-296), sspi_deselect_device   *)
(* (lines 307-321) and the transmit-empty wait (lines 110-134), for one    *)
(* caller that selects a device and deselects it again.                    *)
(***************************************************************************)
SelFrame == UNCHANGED <<variant, SystemCoreClock, lockVars, xferVars, setupVars, initVars,
                        flowVars>>

\* line 290: the chip-select field (four bits) of ~(1 << id).
PcsComplement(d) == 15 - 2 ^ d

\* lines 287-292: the peripheral chip-select value after select.
SelectPcs(v, old, d) ==
    IF v = "SAM3XA" /\ d < MAX_NUM_WITHOUT_DECODER THEN PcsComplement(d) ELSE old

\* lines 311-317: the peripheral chip-select value after deselect.
DeselectPcs(v, old) == IF v = "SAM3XA" THEN NONE_CHIP_SELECT_ID ELSE old

\* Plausible slips: a wait that polls until the flag is set, and the wait
\* written like the other two.
waitNoBudget(t, ready) ==
    IF ready THEN [t |-> t, out |-> "ready"] ELSE [t |-> t, out |-> "again"]

\* One pass of  while (!empty) { if (!timeout--) return true; }
\* The budget is tested before it is decremented.  At the return the
\* decrement wraps the unsigned local, which is dead by then; -1 stands for
\* the wrapped value.
waitForTxEmpty(t, ready) ==
    IF ready THEN [t |-> t, out |-> "ready"]
    ELSE [t |-> t - 1, out |-> IF t = 0 THEN "timeout" ELSE "again"]

\* lines 285-296, the whole of sspi_select_device.
sspi_select_device ==
    /\ spc = "idle"
    /\ nSelects < MaxSelects
    /\ \E d \in DeviceIds :
          /\ sdev' = d
          /\ pcs' = SelectPcs(variant, pcs, d)
          /\ csLine' = [csLine EXCEPT ![d] = "LOW"]
    /\ lastxfer' = FALSE
    /\ spc' = "selected"
    /\ nSelects' = nSelects + 1
    /\ UNCHANGED <<etimeout, epolls, eTimedOut, deselStatus, nDeselects>>
    /\ SelFrame

\* line 309 / 113, 124: sspi_deselect_device(sdev) enters waitForTxEmpty.
DeselEnter ==
    /\ spc = "selected"
    /\ etimeout' = SPI_TIMEOUT
    /\ epolls' = 0
    /\ eTimedOut' = FALSE
    /\ spc' = "l309"
    /\ UNCHANGED <<csLine, pcs, lastxfer, sdev, deselStatus, nSelects, nDeselects>>
    /\ SelFrame

\* lines 114-120 / 125-131: one poll of the transmit-empty flag.  The value
\* waitForTxEmpty returns is dropped by line 309.
EmptyPoll ==
    /\ spc = "l309"
    /\ \E empty \in BOOLEAN :
          LET r == waitForTxEmpty(etimeout, empty) IN
          /\ etimeout' = r.t
          /\ eTimedOut' = (r.out = "timeout")
          /\ spc' = IF r.out = "again" THEN "l309" ELSE "l311"
    /\ epolls' = epolls + 1
    /\ UNCHANGED <<csLine, pcs, lastxfer, sdev, deselStatus, nSelects, nDeselects>>
    /\ SelFrame

\* lines 311-321: the rest of sspi_deselect_device.  The function is void:
\* its caller is given no status.
DeselLines ==
    /\ spc = "l311"
    /\ lastxfer' = (variant = "SAM3XA")
    /\ pcs' = DeselectPcs(variant, pcs)
    /\ csLine' = [csLine EXCEPT ![sdev] = "HIGH"]
    /\ deselStatus' = "void"
    /\ spc' = "idle"
    /\ nDeselects' = nDeselects + 1
    /\ UNCHANGED <<sdev, etimeout, epolls, eTimedOut, nSelects>>
    /\ SelFrame

SelInit ==
    /\ variant \in Variants
    /\ SystemCoreClock = 120000000
    /\ LockReset
    /\ XferReset
    /\ SetupReset
    /\ InitReset
    /\ SelReset
    /\ FlowReset

SelNext ==
    \/ sspi_select_device
    \/ DeselEnter
    \/ EmptyPoll
    \/ DeselLines

SelSpec == SelInit /\ [][SelNext]_vars

\* The caller runs on: a call that can take a step takes it.
SelFairSpec == SelSpec /\ WF_vars(SelNext)

(***************************************************************************)
(* Claims about chip select and the transmit-empty wait.                   *)
(***************************************************************************)
\* C12: sspi_select_device(d) directly followed by sspi_deselect_device(d)
\* returns whatever the transmit-empty flag reads: the wait makes a bounded
\* number of polls, the call comes back, and d's chip-select line is then
\* HIGH.
C12_SelectDeselectReturns ==
    /\ [](epolls <= SPI_TIMEOUT + 1)
    /\ [](spc = "idle" => \A d \in DeviceIds : csLine[d] = "HIGH")
    /\ (spc = "selected") ~> (spc = "idle" /\ csLine[sdev] = "HIGH")

\* A deselect has returned although the flag was never signalled.
C12_Witness ==
    /\ spc = "idle"
    /\ nDeselects >= 1
    /\ eTimedOut
    /\ epolls = SPI_TIMEOUT + 1
    /\ csLine[sdev] = "HIGH"

\* C13: a wait that exhausts its budget makes its operation report
\* TimeoutError to the caller; for the transmit-empty wait, the caller of
\* sspi_deselect_device is given the timeout status.
C13_TimeoutReported ==
    (spc = "idle" /\ nDeselects >= 1 /\ eTimedOut) => deselStatus = "SPI_ERROR_TIMEOUT"

\* C20: the transmit-empty wait follows the policy of the other two waits:
\* against a flag that is never set it reports the timeout after exactly
\* SPI_TIMEOUT polls.
C20_SamePolicy ==
    (spc = "l311" /\ eTimedOut) => epolls = SPI_TIMEOUT

(***************************************************************************)
(* The last-transfer marker of the transceive loop.                        *)
(***************************************************************************)
\* The word carries the last-transfer bit.
Marked(w) == (w \div SPI_TDR_LASTXFER) % 2 = 1

\* The positions in the log of transmit-register writes of the marked words.
MarkedWrites == {k \in 1..Len(tdrLog) : Marked(tdrLog[k].word)}

\* C19: the word written at step i carries the last-transfer marker exactly
\* when i = len - 1; a call that returned SPI_OK wrote one marked word, its
\* last, and a call that timed out before the final step wrote none.
C19_MarkerOnFinalStep ==
    /\ \A k \in 1..Len(tdrLog) :
          Marked(tdrLog[k].word) <=> (tdrLog[k].idx = len - 1)
    /\ (xpc = "done" /\ status = "SPI_OK" /\ len >= 1) =>
          MarkedWrites = {Len(tdrLog)}
    /\ (timedOut # <<>> /\ timedOut[1][1] < len - 1) => MarkedWrites = {}

\* A two-word call returned SPI_OK: first word plain, second marked.
C19_Witness ==
    /\ xpc = "done"
    /\ status = "SPI_OK"
    /\ len = 2
    /\ Len(tdrLog) = 2
    /\ ~Marked(tdrLog[1].word)
    /\ Marked(tdrLog[2].word)

(***************************************************************************)
(* Where the lock flag is written.                                         *)
(***************************************************************************)
\* C18 as stated: every change of the lock flag, by sspi_acquire and by
\* sspi_release alike, is made with interrupts disabled.
C18_AllWritesInCritical ==
    [][(sspiLocked' # sspiLocked) => (~irqEnabled /\ ~irqEnabled')]_vars

\* C18 as amended: sspi_acquire tests and sets the flag with interrupts
\* disabled; sspi_release clears it with one store and enters no critical
\* section (it leaves the interrupt state as it found it).
C18_AcquireWritesInCritical ==
    [][\A c \in Callers :
          /\ (pc[c] = "l64" /\ pc'[c] # "l64") => (~irqEnabled /\ ~irqEnabled')
          /\ (pc[c] = "l70" /\ pc'[c] # "l70") =>
                (~irqEnabled /\ ~irqEnabled' /\ sspiLocked')
          /\ (pc[c] = "holding" /\ pc'[c] = "idle") =>
                (~sspiLocked' /\ irqEnabled' = irqEnabled /\ flags' = flags)
          /\ (sspiLocked' # sspiLocked) =>
                \E d \in Callers : pc[d] \in {"l70", "holding"} /\ pc'[d] # pc[d]
      ]_vars

\* After a release, an acquire has set the flag and is still inside its
\* critical section.
C18_Witness ==
    \E c \in Callers :
        /\ pc[c] = "l73"
        /\ rslt[c]
        /\ sspiLocked
        /\ ~irqEnabled
        /\ nReleases >= 1

FlowFrame ==
    UNCHANGED <<variant, SystemCoreClock, initVars, regB, lastSetupB, spc, sdev,
                etimeout, epolls, eTimedOut, deselStatus, nSelects, nDeselects,
                xpc, wide, tx_data, rx_data, len, i, timeout, status, hw, RDR,
                tdrLog, rdrLog, memWrites, rx0, polls, waitPolls, txEverReady,
                rxEverReady, timedOut, pollsAfterTimeout>>

\* The device of each client.
DevOf == [taskA |-> 0, taskB |-> 1, isr |-> 5]

\* The client is past a successful sspi_acquire and can run.
Holding(c, st) == pc[c] = "holding" /\ stage[c] = st /\ Runnable(c)

\* lines 245-275, called by the client that holds the bus.
FlowSetup(c) ==
    /\ Holding(c, "idle")
    /\ \E spiMode \in {0, 3} :
          LET device == [id |-> DevOf[c], bits |-> 8] IN
          /\ reg' = IF variant = "SAM4E"
                       THEN SetupUsart(spiMode, 4000000)
                       ELSE SetupSpi(device, spiMode, 4000000)
          /\ lastSetup' = << [device |-> device, spiMode |-> spiMode,
                              baud_rate |-> 4000000] >>
    /\ stage' = [stage EXCEPT ![c] = "select"]
    /\ UNCHANGED <<lockVars, TDR, csLine, pcs, lastxfer, flen, fi, ftimeout, nXfers>>
    /\ FlowFrame

\* lines 285-296.
FlowSelect(c) ==
    /\ Holding(c, "select")
    /\ pcs' = SelectPcs(variant, pcs, DevOf[c])
    /\ csLine' = [csLine EXCEPT ![DevOf[c]] = "LOW"]
    /\ lastxfer' = FALSE
    /\ stage' = [stage EXCEPT ![c] = "call"]
    /\ UNCHANGED <<lockVars, TDR, reg, lastSetup, flen, fi, ftimeout, nXfers>>
    /\ FlowFrame

\* line 332-336: the client calls sspi_transceive_packet(nullptr, nullptr, n).
FlowCall(c) ==
    /\ Holding(c, "call")
    /\ nXfers[c] < MaxXfers
    /\ \E n \in 0..MaxLen :
          /\ flen' = [flen EXCEPT ![c] = n]
          /\ stage' = [stage EXCEPT ![c] = IF n = 0 THEN "call" ELSE "txwait"]
          /\ ftimeout' = [ftimeout EXCEPT ![c] = IF n = 0 THEN 0 ELSE SPI_TIMEOUT]
    /\ fi' = [fi EXCEPT ![c] = 0]
    /\ nXfers' = [nXfers EXCEPT ![c] = nXfers[c] + 1]
    /\ UNCHANGED <<lockVars, TDR, reg, lastSetup, csLine, pcs, lastxfer>>
    /\ FlowFrame

\* lines 336-339: one poll of waitForTxReady; a timeout ends the call.
FlowTxPoll(c) ==
    /\ Holding(c, "txwait")
    /\ \E ready \in BOOLEAN :
          LET r == waitForTxReady(ftimeout[c], ready) IN
          /\ stage' = [stage EXCEPT ![c] =
                          CASE r.out = "ready" -> "write"
                            [] r.out = "timeout" -> "call"
                            [] OTHER -> "txwait"]
          /\ ftimeout' = [ftimeout EXCEPT ![c] = IF r.out = "timeout" THEN 0 ELSE r.t]
          /\ flen' = [flen EXCEPT ![c] = IF r.out = "timeout" THEN 0 ELSE flen[c]]
          /\ fi' = [fi EXCEPT ![c] = IF r.out = "timeout" THEN 0 ELSE fi[c]]
    /\ UNCHANGED <<lockVars, TDR, reg, lastSetup, csLine, pcs, lastxfer, nXfers>>
    /\ FlowFrame

\* lines 342-352: the write to the transmit register.
FlowWrite(c) ==
    /\ Holding(c, "write")
    /\ TDR' = DOut(NullPtr, fi[c], flen[c])
    /\ stage' = [stage EXCEPT ![c] = "rxwait"]
    /\ ftimeout' = [ftimeout EXCEPT ![c] = SPI_TIMEOUT]
    /\ UNCHANGED <<lockVars, reg, lastSetup, csLine, pcs, lastxfer, flen, fi, nXfers>>
    /\ FlowFrame

\* lines 354-357: one poll of waitForRxReady; a timeout ends the call.
FlowRxPoll(c) ==
    /\ Holding(c, "rxwait")
    /\ \E ready \in BOOLEAN :
          LET r == waitForRxReady(ftimeout[c], ready) IN
          /\ stage' = [stage EXCEPT ![c] =
                          CASE r.out = "ready" -> "read"
                            [] r.out = "timeout" -> "call"
                            [] OTHER -> "rxwait"]
          /\ ftimeout' = [ftimeout EXCEPT ![c] = IF r.out = "timeout" THEN 0 ELSE r.t]
          /\ flen' = [flen EXCEPT ![c] = IF r.out = "timeout" THEN 0 ELSE flen[c]]
          /\ fi' = [fi EXCEPT ![c] = IF r.out = "timeout" THEN 0 ELSE fi[c]]
    /\ UNCHANGED <<lockVars, TDR, reg, lastSetup, csLine, pcs, lastxfer, nXfers>>
    /\ FlowFrame

\* lines 359-369 and 334: the word is read and dropped (rx_data is null);
\* next step of the loop, or return SPI_OK.
FlowRead(c) ==
    /\ Holding(c, "read")
    /\ IF fi[c] + 1 < flen[c]
          THEN /\ fi' = [fi EXCEPT ![c] = fi[c] + 1]
               /\ stage' = [stage EXCEPT ![c] = "txwait"]
               /\ ftimeout' = [ftimeout EXCEPT ![c] = SPI_TIMEOUT]
               /\ UNCHANGED flen
          ELSE /\ fi' = [fi EXCEPT ![c] = 0]
               /\ stage' = [stage EXCEPT ![c] = "call"]
               /\ ftimeout' = [ftimeout EXCEPT ![c] = 0]
               /\ flen' = [flen EXCEPT ![c] = 0]
    /\ UNCHANGED <<lockVars, TDR, reg, lastSetup, csLine, pcs, lastxfer, nXfers>>
    /\ FlowFrame

\* line 309 / 113, 124: the client calls sspi_deselect_device, which enters
\* waitForTxEmpty.
FlowDeselEnter(c) ==
    /\ Holding(c, "call")
    /\ stage' = [stage EXCEPT ![c] = "emptywait"]
    /\ ftimeout' = [ftimeout EXCEPT ![c] = SPI_TIMEOUT]
    /\ UNCHANGED <<lockVars, TDR, reg, lastSetup, csLine, pcs, lastxfer, flen, fi, nXfers>>
    /\ FlowFrame

\* lines 114-120 / 125-131: one poll of the transmit-empty flag.
FlowEmptyPoll(c) ==
    /\ Holding(c, "emptywait")
    /\ \E empty \in BOOLEAN :
          LET r == waitForTxEmpty(ftimeout[c], empty) IN
          /\ stage' = [stage EXCEPT ![c] = IF r.out = "again" THEN "emptywait" ELSE "lines"]
          /\ ftimeout' = [ftimeout EXCEPT ![c] = IF r.out = "again" THEN r.t ELSE 0]
    /\ UNCHANGED <<lockVars, TDR, reg, lastSetup, csLine, pcs, lastxfer, flen, fi, nXfers>>
    /\ FlowFrame

\* A plausible slip: deselect writes the asserted level once more.
FlowDeselLinesLow(c) ==
    /\ Holding(c, "lines")
    /\ lastxfer' = (variant = "SAM3XA")
    /\ pcs' = DeselectPcs(variant, pcs)
    /\ csLine' = [csLine EXCEPT ![DevOf[c]] = "LOW"]
    /\ stage' = [stage EXCEPT ![c] = "release"]
    /\ UNCHANGED <<lockVars, TDR, reg, lastSetup, flen, fi, ftimeout, nXfers>>
    /\ FlowFrame

\* lines 311-321.
FlowDeselLines(c) ==
    /\ Holding(c, "lines")
    /\ lastxfer' = (variant = "SAM3XA")
    /\ pcs' = DeselectPcs(variant, pcs)
    /\ csLine' = [csLine EXCEPT ![DevOf[c]] = "HIGH"]
    /\ stage' = [stage EXCEPT ![c] = "release"]
    /\ UNCHANGED <<lockVars, TDR, reg, lastSetup, flen, fi, ftimeout, nXfers>>
    /\ FlowFrame

\* line 80: sspiLocked = false; the client is back where it started.
FlowRelease(c) ==
    /\ Holding(c, "release")
    /\ sspiLocked' = FALSE
    /\ pc' = [pc EXCEPT ![c] = "idle"]
    /\ nReleases' = nReleases + 1
    /\ stage' = [stage EXCEPT ![c] = "idle"]
    /\ nXfers' = [nXfers EXCEPT ![c] = 0]
    /\ UNCHANGED <<irqEnabled, flags, rslt, entryFlag, nCalls, TDR, reg, lastSetup,
                   csLine, pcs, lastxfer, flen, fi, ftimeout>>
    /\ FlowFrame

FlowInit ==
    /\ variant \in Variants
    /\ SystemCoreClock = 120000000
    /\ LockReset
    /\ XferReset
    /\ SetupReset
    /\ InitReset
    /\ SelReset
    /\ FlowReset

FlowNext ==
    \/ \E c \in Callers : AcqSave(c)
    \/ \E c \in Callers : AcqTest(c)
    \/ \E c \in Callers : AcqBusy(c)
    \/ \E c \in Callers : AcqTake(c)
    \/ \E c \in Callers : AcqReturn(c)
    \/ \E c \in Callers : FlowSetup(c)
    \/ \E c \in Callers : FlowSelect(c)
    \/ \E c \in Callers : FlowCall(c)
    \/ \E c \in Callers : FlowTxPoll(c)
    \/ \E c \in Callers : FlowWrite(c)
    \/ \E c \in Callers : FlowRxPoll(c)
    \/ \E c \in Callers : FlowRead(c)
    \/ \E c \in Callers : FlowDeselEnter(c)
    \/ \E c \in Callers : FlowEmptyPoll(c)
    \/ \E c \in Callers : FlowDeselLines(c)
    \/ \E c \in Callers : FlowRelease(c)

FlowSpec == FlowInit /\ [][FlowNext]_vars

(***************************************************************************)
(* Claim about the whole flow.                                             *)
(***************************************************************************)
\* The clients inside a sspi_transceive_packet call.
Transceiving == {c \in Callers : stage[c] \in {"txwait", "write", "rxwait", "read"}}

\* C15: with every client following acquire, set-up, select, transceive
\* calls, deselect, release (going on only after acquire answered true),
\* each write to the transmit register is made by the holder of the bus
\* while the chip-select line of its device is LOW and every other line is
\* HIGH, and at most one transceive call is in progress at any time.
C15_SelectBracketsTransfer ==
    /\ [](Cardinality(Transceiving) <= 1)
    /\ [][\A c \in Callers :
             (stage[c] = "write" /\ stage'[c] # "write") =>
                /\ Holders = {c}
                /\ csLine[DevOf[c]] = "LOW"
                /\ \A d \in DeviceIds \ {DevOf[c]} : csLine[d] = "HIGH"
         ]_vars

\* Task B has written a word in its second transceive call, after an earlier
\* holder released, while the interrupt handler's acquire has just failed.
C15_Witness ==
    /\ stage["taskB"] = "rxwait"
    /\ nXfers["taskB"] = 2
    /\ csLine[DevOf["taskB"]] = "LOW"
    /\ nReleases >= 1
    /\ pc["isr"] = "l73"
    /\ ~rslt["isr"]

==========================================================================
